---- MODULE Spec2Model ----
(***************************************************************************)
(* A model of dakv/skiplist: the skip list (src/src/skiplist.rs), its      *)
(* nodes (src/src/skipnode.rs), the byte comparator (src/src/cmp.rs), the  *)
(* iterator (src/src/skiplist_iter.rs) and the arena (src/src/arena.rs).   *)
(*                                                                         *)
(* Nodes are numbered in allocation order: 0 is the head sentinel, NULL    *)
(* stands for the null pointer.  Keys are byte strings (sequences).        *)
(* Arena pointers are byte addresses, 0 being the null pointer.            *)
(***************************************************************************)
EXTENDS Integers, Sequences, FiniteSets, TLC

\* ------------------------------------------------------------------ bounds
MaxNodes == 3        \* inserts per behaviour of Spec and SpecIter
MaxConcNodes == 2    \* inserts per behaviour of SpecConc
MaxAllocs == 3       \* requests per behaviour of SpecArena and SpecAllocs

\* ------------------------------------------------------- program constants
K_MAX_HEIGHT == 12
K_BRANCHING == 4
K_BLOCK_SIZE == 4096
size_of_Node == 136
size_of_usize == 8

HEAD == 0
NULL == -1

\* --------------------------------------------------------------- variables
VARIABLES
    nodes,        \* the allocated nodes: 0..n -> [data, height, forward]
    max_height,   \* SkipListInner.max_height
    len,          \* SkipListInner.len
    iter_node,    \* SkipListIter.node
    last,         \* the last completed call: [op, key, ret, seq, skey]
    scan,         \* next() calls since the last seek_to_first(), -1 when none
    back,         \* prev() calls since the last seek_to_last(), -1 when none
    inserted,     \* keys of the completed insert calls
    calls,        \* number of completed insert calls
    since_clear,  \* number of completed insert calls since the last clear()
    wpc, wkey, wheight, wprev, wn, wi,      \* the writer inside insert
    wown,         \* levels at which the writer has set the new node's pointer
    started,      \* keys of the insert calls begun
    rpc, rkey, rcur, rlevel,                \* the readers inside contains
    rfound, rret, \* what find and contains returned to a reader
    rsnap,        \* keys whose insert had completed when the call began
    arena,        \* ArenaInner: [alloc_ptr, remaining_bytes, memory_usage,
                  \* blocks], a block being [base, size]
    regions,      \* the requests made of the arena and what each returned
    threads       \* the threads sharing one list or one arena: [pc, ..]

listVars == <<nodes, max_height, len>>
iterVars == <<iter_node, scan, back>>
ghostVars == <<inserted, calls, since_clear>>
writerVars == <<wpc, wkey, wheight, wprev, wn, wi, wown, started>>
readerVars == <<rpc, rkey, rcur, rlevel, rfound, rret, rsnap>>
arenaVars == <<arena, regions>>
vars == <<nodes, max_height, len, iter_node, last, scan, back, inserted, calls,
          since_clear, wpc, wkey, wheight, wprev, wn, wi, wown, started,
          rpc, rkey, rcur, rlevel, rfound, rret, rsnap, arena, regions,
          threads>>

\* -------------------------------------------------------------------- keys
\* the keys the callers pass: the empty key (the head holds it too) and two
\* keys that differ in their second byte only, so that every branch of the
\* comparison of byte strings is taken
Keys == {<<>>, <<1, 1>>, <<1, 2>>}

Levels == 0..(K_MAX_HEIGHT - 1)

\* ------------------------------------------------------------------ cmp.rs
\* <[u8]>::gt : lexicographic order of byte slices
RECURSIVE slice_gt(_, _)
slice_gt(a, b) ==
    IF Len(a) = 0 THEN FALSE
    ELSE IF Len(b) = 0 THEN TRUE
    ELSE IF Head(a) # Head(b) THEN Head(a) > Head(b)
    ELSE slice_gt(Tail(a), Tail(b))

\* DefaultComparator::compare
compare(a, b) ==
    IF a = b THEN "Equal"
    ELSE IF slice_gt(a, b) THEN "Greater"
    ELSE "Less"

\* gte that leaves out Equal
gte_strict(a, b) == compare(a, b) = "Greater"

\* SkipList::eq / lt / gte
eq(a, b) == compare(a, b) = "Equal"
lt(a, b) == compare(a, b) = "Less"
gte(a, b) ==
    LET r == compare(a, b) IN r = "Greater" \/ r = "Equal"

\* ------------------------------------------------------------- skipnode.rs
\* Node::new : every forward slot starts null
Node_new(data, height) ==
    [data |-> data, height |-> height, forward |-> [l \in Levels |-> NULL]]

\* Node::head
Node_head == Node_new(<<>>, K_MAX_HEIGHT)

\* Node::get_next on the node store ns
get_next(ns, x, n) == ns[x].forward[n]

\* Node::set_next on the node store ns
set_next(ns, x, n, node) == [ns EXCEPT ![x].forward[n] = node]

\* key_is_after_node with the arguments of lt swapped
key_is_after_node_swapped(ns, key, node) ==
    IF node = NULL THEN FALSE ELSE compare(key, ns[node].data) = "Less"

\* key_is_after_node that also passes a node with an equal key
key_is_after_node_le(ns, key, node) ==
    IF node = NULL THEN FALSE ELSE compare(ns[node].data, key) # "Greater"

\* ------------------------------------------------------------- skiplist.rs
\* SkipList::key_is_after_node
key_is_after_node(ns, key, node) ==
    IF node = NULL THEN FALSE ELSE lt(ns[node].data, key)

\* one iteration of the loop of SkipList::find, from (ptr, height, prev):
\* the next (ptr, height, prev), and the returned node once done
find_step(ns, key, ptr, height, prev) ==
    LET next_ptr == get_next(ns, ptr, height) IN
    IF key_is_after_node(ns, key, next_ptr)
    THEN [done |-> FALSE, ptr |-> next_ptr, height |-> height, prev |-> prev,
          ret |-> NULL]
    ELSE LET p == IF Len(prev) # 0
                  THEN [prev EXCEPT ![height + 1] = ptr]
                  ELSE prev
         IN IF height = 0
            THEN [done |-> TRUE, ptr |-> ptr, height |-> height, prev |-> p,
                  ret |-> next_ptr]
            ELSE [done |-> FALSE, ptr |-> ptr, height |-> height - 1,
                  prev |-> p, ret |-> NULL]

RECURSIVE find_loop(_, _, _, _, _)
find_loop(ns, key, ptr, height, prev) ==
    LET s == find_step(ns, key, ptr, height, prev) IN
    IF s.done THEN [node |-> s.ret, prev |-> s.prev]
    ELSE find_loop(ns, key, s.ptr, s.height, s.prev)

\* SkipList::find : the node returned and the prev vector as left behind
find(ns, mh, key, prev) == find_loop(ns, key, HEAD, mh - 1, prev)

\* iter::repeat(null_mut()).take(K_MAX_HEIGHT).collect()
null_prev == [i \in 1..K_MAX_HEIGHT |-> NULL]

\* the stream of the random source: z draws that are multiples of
\* K_BRANCHING, then one that is not; no promotion, one promotion, and more
\* promotions than the ceiling allows
Run(z) == [i \in 1..(z + 1) |-> IF i <= z THEN K_BRANCHING * i
                                 ELSE K_BRANCHING * z + 3]

ZeroRuns == {0, 1, K_MAX_HEIGHT + 1}

Draws == {Run(z) : z \in ZeroRuns}

\* SkipList::random_height, on the values rnd.next() returns in turn
RECURSIVE random_height_loop(_, _)
random_height_loop(height, draws) ==
    IF height < K_MAX_HEIGHT /\ (Head(draws) % K_BRANCHING = 0)
    THEN random_height_loop(height + 1, Tail(draws))
    ELSE height

random_height(draws) == random_height_loop(1, draws)

\* insert without the fetch_add
len_not_counted(l) == l

\* insert: self.inner.len.fetch_add(1, ..)
len_after_insert(l) == l + 1

\* SkipList::memory_size
memory_size(l) == (l + 1) * size_of_Node

\* SkipList::is_empty
is_empty(l) == l = 0

\* set_max_height(height) without the comparison
new_max_height_always(height, mh) == height

\* insert: "if height > self.get_max_height()" decides the stored max height
new_max_height(height, mh) == IF height > mh THEN height ELSE mh

\* insert without the fix-up of the levels above the old max height
fill_prev_none(prev, height, mh) == prev

\* the head taken at every level below height, the skip(max_height) dropped
fill_prev_from_zero(prev, height, mh) ==
    IF height > mh
    THEN [i \in 1..K_MAX_HEIGHT |-> IF i - 1 < height THEN HEAD ELSE prev[i]]
    ELSE prev

\* insert: the levels from the old max height up to height-1 take the head
fill_prev(prev, height, mh) ==
    IF height > mh
    THEN [i \in 1..K_MAX_HEIGHT |->
            IF i - 1 >= mh /\ i - 1 < height THEN HEAD ELSE prev[i]]
    ELSE prev

\* the loop body without n.set_next
link_own_skipped(ns, prev, n, i) == ns

\* insert, loop body, first half: n.set_next(i, (*node).get_next(i))
link_own(ns, prev, n, i) ==
    set_next(ns, n, i, get_next(ns, prev[i + 1], i))

\* the new node stored into the head whatever the predecessor
link_pred_at_head(ns, prev, n, i) == set_next(ns, HEAD, i, n)

\* insert, loop body, second half: (*node).set_next(i, n)
link_pred(ns, prev, n, i) == set_next(ns, prev[i + 1], i, n)

\* insert, the loop over the levels i..height-1
RECURSIVE splice(_, _, _, _, _)
splice(ns, prev, n, i, height) ==
    IF i >= height THEN ns
    ELSE splice(link_pred(link_own(ns, prev, n, i), prev, n, i),
                prev, n, i + 1, height)

\* the node store with one more node allocated
alloc(ns, node) ==
    LET n == Cardinality(DOMAIN ns) IN
    [x \in 0..n |-> IF x < n THEN ns[x] ELSE node]

\* SkipList::find_less_than
RECURSIVE find_less_than_loop(_, _, _, _)
find_less_than_loop(ns, key, x, level) ==
    LET next == get_next(ns, x, level) IN
    IF next = NULL \/ gte(ns[next].data, key)
    THEN IF level = 0 THEN x
         ELSE find_less_than_loop(ns, key, x, level - 1)
    ELSE find_less_than_loop(ns, key, next, level)

\* a find_less_than that answers with the first node at or after the key
find_less_than_as_find(ns, mh, key) ==
    LET x == find(ns, mh, key, null_prev).node
    IN IF x = NULL THEN HEAD ELSE x

find_less_than(ns, mh, key) == find_less_than_loop(ns, key, HEAD, mh - 1)

\* find_last that stops on the level it starts at
RECURSIVE find_last_no_descent(_, _, _)
find_last_no_descent(ns, x, level) ==
    LET next == ns[x].forward[level] IN
    IF next # NULL THEN find_last_no_descent(ns, next, level) ELSE x

\* SkipList::find_last
RECURSIVE find_last_loop(_, _, _)
find_last_loop(ns, x, level) ==
    LET next == get_next(ns, x, level) IN
    IF next # NULL THEN find_last_loop(ns, next, level)
    ELSE IF level = 0 THEN x
    ELSE find_last_loop(ns, x, level - 1)

find_last(ns, mh) == find_last_loop(ns, HEAD, mh - 1)

\* ------------------------------------- the forward pointers an operation uses
\* (*node).get_next(level) or (*node).set_next(level, ..) on a node
Access(node, level) == [node |-> node, level |-> level]

\* the get_next calls of find's loop, from ptr at level height on
RECURSIVE find_reads(_, _, _, _)
find_reads(ns, key, ptr, height) ==
    LET s == find_step(ns, key, ptr, height, null_prev) IN
    {Access(ptr, height)} \cup
        (IF s.done THEN {} ELSE find_reads(ns, key, s.ptr, s.height))

\* the get_next calls of find_less_than's loop
RECURSIVE find_less_than_reads(_, _, _, _)
find_less_than_reads(ns, key, x, level) ==
    LET next == get_next(ns, x, level) IN
    {Access(x, level)} \cup
        (IF next = NULL \/ gte(ns[next].data, key)
         THEN IF level = 0 THEN {}
              ELSE find_less_than_reads(ns, key, x, level - 1)
         ELSE find_less_than_reads(ns, key, next, level))

\* the get_next calls of find_last's loop
RECURSIVE find_last_reads(_, _, _)
find_last_reads(ns, x, level) ==
    LET next == get_next(ns, x, level) IN
    {Access(x, level)} \cup
        (IF next # NULL THEN find_last_reads(ns, next, level)
         ELSE IF level = 0 THEN {}
         ELSE find_last_reads(ns, x, level - 1))

\* the get_next and set_next calls of insert's loop on prev and on n
insert_accesses(prev, n, height) ==
    {Access(prev[i + 1], i) : i \in 0..(height - 1)} \cup
    {Access(n, i) : i \in 0..(height - 1)}

\* every forward pointer that insert(key) with these draws would use
insert_uses(ns, mh, key, draws) ==
    LET height == random_height(draws)
        prev == fill_prev(find(ns, mh, key, null_prev).prev, height, mh)
    IN find_reads(ns, key, HEAD, mh - 1) \cup
       insert_accesses(prev, Cardinality(DOMAIN ns), height)

\* every forward pointer that contains, find, find_less_than, find_last and
\* the iterator's seeks would use for this key
search_uses(ns, mh, key) ==
    find_reads(ns, key, HEAD, mh - 1) \cup
    find_less_than_reads(ns, key, HEAD, mh - 1) \cup
    find_last_reads(ns, HEAD, mh - 1)

\* contains without the comparison of the key found
contains_any(ns, mh, key) == find_loop(ns, key, HEAD, mh - 1, <<>>).node # NULL

\* SkipList::contains, as a function of the list
contains(ns, mh, key) ==
    LET x == find(ns, mh, key, null_prev).node IN
    x # NULL /\ eq(key, ns[x].data)

\* ---------------------------------------------------------------- arena.rs
null_ptr == 0

\* ArenaInner::new : #[derive(Default)]
ArenaInner_new ==
    [alloc_ptr |-> null_ptr, remaining_bytes |-> 0, memory_usage |-> 0,
     blocks |-> <<>>]

\* request sizes: none, small ones that leave the bump pointer off an 8-byte
\* boundary, the two sides of K_BLOCK_SIZE / 4, and two near a whole block
Sizes == {0, 1, 3, K_BLOCK_SIZE \div 4, K_BLOCK_SIZE \div 4 + 1,
          K_BLOCK_SIZE - 6, K_BLOCK_SIZE - 1}

\* vec![0; bytes] : where the system allocator may put the next block; it
\* hands out 8-byte aligned memory that overlaps no block still owned
Bases(a) ==
    LET top == IF a.blocks = <<>> THEN 16
               ELSE LET b == a.blocks[Len(a.blocks)]
                    IN ((b.base + b.size + 7) \div 8) * 8
    IN {top, top + 8}

\* a block accounted without the size_of::<usize>() of bookkeeping
allocate_new_block_bare(a, bytes, base) ==
    [a EXCEPT !.blocks = Append(@, [base |-> base, size |-> bytes]),
              !.memory_usage = @ + bytes]

\* ArenaInner::allocate_new_block : the block is at base
allocate_new_block(a, bytes, base) ==
    [a EXCEPT !.blocks = Append(@, [base |-> base, size |-> bytes]),
              !.memory_usage = @ + bytes + size_of_usize]

\* a bump pointer that is never advanced
add_alloc_ptr_none(a, bytes) == a

\* ArenaInner::add_alloc_ptr
add_alloc_ptr(a, bytes) == [a EXCEPT !.alloc_ptr = @ + bytes]

\* a counter that is decremented twice
sub_remaining_bytes_twice(a, bytes) ==
    [a EXCEPT !.remaining_bytes = @ - 2 * bytes]

\* ArenaInner::sub_remaining_bytes : fetch_sub on a usize
sub_remaining_bytes(a, bytes) == [a EXCEPT !.remaining_bytes = @ - bytes]

\* alloc_fallback that gives a block of its own only above half a block
alloc_fallback_half(a, bytes, base) ==
    IF bytes > K_BLOCK_SIZE \div 2
    THEN [a |-> allocate_new_block(a, bytes, base), result |-> base,
          path |-> "dedicated"]
    ELSE LET b == [allocate_new_block(a, K_BLOCK_SIZE, base)
                       EXCEPT !.alloc_ptr = base,
                              !.remaining_bytes = K_BLOCK_SIZE]
         IN [a |-> sub_remaining_bytes(add_alloc_ptr(b, bytes), bytes),
             result |-> b.alloc_ptr, path |-> "block"]

\* ArenaInner::alloc_fallback
alloc_fallback(a, bytes, base) ==
    IF bytes > K_BLOCK_SIZE \div 4
    THEN [a |-> allocate_new_block(a, bytes, base), result |-> base,
          path |-> "dedicated"]
    ELSE LET b == [allocate_new_block(a, K_BLOCK_SIZE, base)
                       EXCEPT !.alloc_ptr = base,
                              !.remaining_bytes = K_BLOCK_SIZE]
         IN [a |-> sub_remaining_bytes(add_alloc_ptr(b, bytes), bytes),
             result |-> b.alloc_ptr, path |-> "block"]

\* Arena::alloc : both assertions, the fast path, the fallback
Arena_alloc(a, bytes, base) ==
    IF ~(bytes > 0) THEN [a |-> a, result |-> null_ptr, path |-> "panic"]
    ELSE IF bytes <= a.remaining_bytes
    THEN IF a.alloc_ptr = null_ptr
         THEN [a |-> a, result |-> null_ptr, path |-> "panic"]
         ELSE [a |-> sub_remaining_bytes(add_alloc_ptr(a, bytes), bytes),
               result |-> a.alloc_ptr, path |-> "fast"]
    ELSE alloc_fallback(a, bytes, base)

\* a slop that is never skipped
slop_none(current_mod, align) == 0

\* allocate_aligned : the bytes up to the next multiple of align
slop(current_mod, align) ==
    IF current_mod = 0 THEN 0 ELSE align - current_mod

\* Arena::allocate_aligned : the final assert_eq! included
allocate_aligned_result(a, bytes, base) ==
    LET ptr_size == size_of_usize
        align == IF ptr_size > 8 THEN ptr_size ELSE 8
        current_mod == a.alloc_ptr % align
        s == slop(current_mod, align)
        needed == bytes + s
        r == IF needed <= a.remaining_bytes
             THEN [a |-> sub_remaining_bytes(add_alloc_ptr(a, needed),
                                             needed),
                   result |-> a.alloc_ptr + s, path |-> "fast"]
             ELSE alloc_fallback(a, bytes, base)
    IN IF r.result % align = 0 THEN r ELSE [r EXCEPT !.path = "panic"]

\* ----------------------------------------------------------- initial state
\* readers neither write nor see each other: one stands for any number
Readers == {1}

\* the threads that share a clone of the list, or the arena
Threads == {1, 2}

Init ==
    /\ nodes = [x \in {HEAD} |-> Node_head]
    /\ max_height = 1
    /\ len = 0
    /\ iter_node = NULL
    /\ last = [op |-> "new", key |-> <<>>, ret |-> FALSE, seq |-> "",
               skey |-> <<>>]
    /\ scan = -1
    /\ back = -1
    /\ inserted = {}
    /\ calls = 0
    /\ since_clear = 0
    /\ wpc = "idle"
    /\ wkey = <<>>
    /\ wheight = 0
    /\ wprev = null_prev
    /\ wn = NULL
    /\ wi = 0
    /\ wown = {}
    /\ started = {}
    /\ rpc = [r \in Readers |-> "idle"]
    /\ rkey = [r \in Readers |-> <<>>]
    /\ rcur = [r \in Readers |-> HEAD]
    /\ rlevel = [r \in Readers |-> 0]
    /\ rfound = [r \in Readers |-> NULL]
    /\ rret = [r \in Readers |-> FALSE]
    /\ rsnap = [r \in Readers |-> {}]
    /\ arena = ArenaInner_new
    /\ regions = <<>>
    /\ threads = [t \in Threads |-> [pc |-> "idle"]]

\* ------------------------------------------------ single-threaded operations
NumNodes == Cardinality(DOMAIN nodes) - 1

\* how far the calls made so far follow seek(k), prev(), next()
SeqAfter(call) ==
    IF call = "seek" THEN "seek"
    ELSE IF call = "prev" /\ last.seq = "seek" THEN "seek_prev"
    ELSE IF call = "next" /\ last.seq = "seek_prev" THEN "seek_prev_next"
    ELSE ""

\* the call returned: what is remembered of it
Returned(call, op, key, ret) ==
    last' = [op |-> op, key |-> key, ret |-> ret, seq |-> SeqAfter(call),
             skey |-> IF call = "seek" THEN key
                      ELSE IF SeqAfter(call) # "" THEN last.skey
                      ELSE <<>>]

Done(op, key, ret) == Returned(op, op, key, ret)

\* assert!(self.valid()) failed: the call panics
PanicOps == {"next_panic", "prev_panic", "key_panic"}

Panicked(call) ==
    CASE call = "next" -> Returned(call, "next_panic", <<>>, FALSE)
      [] call = "prev" -> Returned(call, "prev_panic", <<>>, FALSE)
      [] call = "key" -> Returned(call, "key_panic", <<>>, FALSE)

\* SkipList::insert, run to completion
insert(key, draws) ==
    LET f == find(nodes, max_height, key, null_prev)
        height == random_height(draws)
        prev == fill_prev(f.prev, height, max_height)
        n == NumNodes + 1
        ns == alloc(nodes, Node_new(key, height))
    IN /\ NumNodes < MaxNodes
       /\ max_height' = new_max_height(height, max_height)
       /\ nodes' = splice(ns, prev, n, 0, height)
       /\ len' = len_after_insert(len)
       /\ inserted' = inserted \cup {key}
       /\ started' = started \cup {key}
       /\ calls' = calls + 1
       /\ since_clear' = since_clear + 1
       /\ scan' = -1
       /\ back' = -1
       /\ Done("insert", key, FALSE)
       /\ UNCHANGED <<arenaVars, threads,
                      iter_node, wpc, wkey, wheight, wprev, wn, wi,
                      wown, readerVars>>

\* a contains that counts the key it looked up
do_contains_counting(key) ==
    /\ Done("contains", key, contains(nodes, max_height, key))
    /\ len' = len + 1
    /\ UNCHANGED <<arenaVars, threads, nodes, max_height, iterVars, ghostVars,
                   writerVars, readerVars>>

\* SkipList::contains
do_contains(key) ==
    /\ Done("contains", key, contains(nodes, max_height, key))
    /\ UNCHANGED <<arenaVars, threads,
                   listVars, iterVars, ghostVars, writerVars,
                   readerVars>>

\* SkipList::clear : only the length is reset
clear ==
    /\ len' = 0
    /\ since_clear' = 0
    /\ Done("clear", <<>>, FALSE)
    /\ UNCHANGED <<arenaVars, threads,
                   nodes, max_height, iterVars, inserted, calls,
                   writerVars, readerVars>>

\* SkipListIter::new
iter_new ==
    /\ iter_node' = NULL
    /\ scan' = -1
    /\ back' = -1
    /\ Done("new", <<>>, FALSE)
    /\ UNCHANGED <<arenaVars, threads,
                   listVars, ghostVars, writerVars, readerVars>>

\* SkipListIter::valid
valid == iter_node # NULL

\* seek_to_first that stays on the head
first_node_head(ns) == HEAD

\* seek_to_first: self.list.get_head().get_next(0)
first_node(ns) == get_next(ns, HEAD, 0)

\* SkipListIter::seek_to_first
seek_to_first ==
    /\ iter_node' = first_node(nodes)
    /\ scan' = 0
    /\ back' = -1
    /\ Done("seek_to_first", <<>>, FALSE)
    /\ UNCHANGED <<arenaVars, threads,
                   listVars, ghostVars, writerVars, readerVars>>

\* SkipListIter::seek_to_last
seek_to_last ==
    LET x == find_last(nodes, max_height) IN
    /\ iter_node' = IF x = HEAD THEN NULL ELSE x
    /\ scan' = -1
    /\ back' = 0
    /\ Done("seek_to_last", <<>>, FALSE)
    /\ UNCHANGED <<arenaVars, threads,
                   listVars, ghostVars, writerVars, readerVars>>

\* SkipListIter::seek
seek(target) ==
    /\ iter_node' = find(nodes, max_height, target, null_prev).node
    /\ scan' = -1
    /\ back' = -1
    /\ Done("seek", target, FALSE)
    /\ UNCHANGED <<arenaVars, threads,
                   listVars, ghostVars, writerVars, readerVars>>

\* SkipListIter::next : moves, or panics on an invalid iterator
iter_next ==
    /\ IF valid
       THEN /\ iter_node' = get_next(nodes, iter_node, 0)
            /\ scan' = IF scan >= 0 THEN scan + 1 ELSE -1
            /\ back' = -1
            /\ Done("next", nodes[iter_node].data, FALSE)
       ELSE /\ Panicked("next")
            /\ UNCHANGED <<iter_node, scan, back>>
    /\ UNCHANGED <<arenaVars, threads,
                   listVars, ghostVars, writerVars, readerVars>>

\* SkipListIter::prev : moves, or panics on an invalid iterator
iter_prev ==
    /\ IF valid
       THEN /\ LET key == nodes[iter_node].data
                   x == find_less_than(nodes, max_height, key)
               IN /\ iter_node' = IF x = HEAD THEN NULL ELSE x
                  /\ Done("prev", key, FALSE)
            /\ scan' = -1
            /\ back' = IF back >= 0 THEN back + 1 ELSE -1
       ELSE /\ Panicked("prev")
            /\ UNCHANGED <<iter_node, scan, back>>
    /\ UNCHANGED <<arenaVars, threads,
                   listVars, ghostVars, writerVars, readerVars>>

\* the accessor without its assertion: the read through the null pointer
\* is taken to hand out an empty key
key_of_unchecked(ns, node) ==
    [panic |-> FALSE, key |-> IF node = NULL THEN <<>> ELSE ns[node].data]

\* SkipListIter::key : assert!(self.valid()), then the node's data
key_of(ns, node) ==
    IF node # NULL THEN [panic |-> FALSE, key |-> ns[node].data]
    ELSE [panic |-> TRUE, key |-> <<>>]

\* SkipListIter::key : the key of the current node, or a panic
iter_key ==
    /\ LET r == key_of(nodes, iter_node)
       IN IF r.panic THEN Panicked("key") ELSE Done("key", r.key, FALSE)
    /\ UNCHANGED <<arenaVars, threads,
                   listVars, iterVars, ghostVars, writerVars,
                   readerVars>>

\* the list under its writer: insert, contains, clear
Next ==
    \/ \E key \in Keys, draws \in Draws : insert(key, draws)
    \/ \E key \in Keys : do_contains(key)
    \/ clear

\* SkipListIter::new(list) takes the list by value: the list is built
\* before an iterator is positioned on it
building == last.op \in {"new", "insert"}

\* the list under its writer, then under an iterator
NextIter ==
    \/ \E key \in Keys, draws \in Draws : building /\ insert(key, draws)
    \/ iter_new
    \/ seek_to_first
    \/ seek_to_last
    \/ \E target \in Keys : seek(target)
    \/ iter_next
    \/ iter_prev
    \/ iter_key

Spec == Init /\ [][Next]_vars

SpecIter == Init /\ [][NextIter]_vars

\* ---------------------------------------------- the node's own operations
\* heights and levels of tests::test_next, and the first level past the array
TestHeights == {0, 3, 4}
TestLevels == {1, 2, 3, K_MAX_HEIGHT}

\* what a call on a node did: the pointer it returned or stored, or a panic
NodeCall(op, x, n, out, panic) ==
    last' = [op |-> op, key |-> <<>>, ret |-> FALSE, seq |-> SeqAfter(op),
             skey |-> <<>>, node |-> x, level |-> n, out |-> out,
             panic |-> panic]

\* Node::new(data, height, arena): a node outside any list
node_new(height) ==
    /\ NumNodes = 0
    /\ nodes' = alloc(nodes, Node_new(<<1>>, height))
    /\ NodeCall("node_new", NumNodes + 1, height, NULL, FALSE)
    /\ UNCHANGED <<arenaVars, threads, max_height, len, iterVars, ghostVars,
                   writerVars, readerVars>>

\* self.forward[n].load(SeqCst): indexing the array is the only check
node_get_next(x, n) ==
    /\ x \in DOMAIN nodes \ {HEAD}
    /\ IF n >= K_MAX_HEIGHT
       THEN NodeCall("get_next", x, n, NULL, TRUE)
       ELSE NodeCall("get_next", x, n, get_next(nodes, x, n), FALSE)
    /\ UNCHANGED <<arenaVars, threads,
                   listVars, iterVars, ghostVars, writerVars,
                   readerVars>>

\* self.forward[n].store(node, SeqCst): indexing the array is the only check
node_set_next(x, n, node) ==
    /\ x \in DOMAIN nodes \ {HEAD}
    /\ node \in DOMAIN nodes \cup {NULL}
    /\ IF n >= K_MAX_HEIGHT
       THEN /\ NodeCall("set_next", x, n, node, TRUE)
            /\ UNCHANGED nodes
       ELSE /\ NodeCall("set_next", x, n, node, FALSE)
            /\ nodes' = set_next(nodes, x, n, node)
    /\ UNCHANGED <<arenaVars, threads, max_height, len, iterVars, ghostVars,
                   writerVars, readerVars>>

NextNode ==
    \/ \E h \in TestHeights : node_new(h)
    \/ \E x \in DOMAIN nodes, n \in TestLevels : node_get_next(x, n)
    \/ \E x \in DOMAIN nodes, n \in TestLevels, y \in DOMAIN nodes \cup {NULL} :
          node_set_next(x, n, y)

SpecNode == Init /\ [][NextNode]_vars

\* ------------------------------------------------------- arena operations
\* a request has returned: what is remembered of it
Served(op, bytes, r) ==
    regions' = Append(regions,
                      [op |-> op, bytes |-> bytes, addr |-> r.result,
                       path |-> r.path, before |-> arena.alloc_ptr,
                       blocks |-> Len(r.a.blocks)])

\* Arena::allocate
allocate(bytes) ==
    /\ Len(regions) < MaxAllocs
    /\ \E base \in Bases(arena) :
          LET r == Arena_alloc(arena, bytes, base)
          IN /\ arena' = r.a
             /\ Served("allocate", bytes, r)
    /\ UNCHANGED <<threads, listVars, iterVars, last, ghostVars, writerVars,
                   readerVars>>

\* Arena::allocate_aligned
allocate_aligned(bytes) ==
    /\ Len(regions) < MaxAllocs
    /\ \E base \in Bases(arena) :
          LET r == allocate_aligned_result(arena, bytes, base)
          IN /\ arena' = r.a
             /\ Served("allocate_aligned", bytes, r)
    /\ UNCHANGED <<threads, listVars, iterVars, last, ghostVars, writerVars,
                   readerVars>>

NextArena ==
    \/ \E bytes \in Sizes : allocate(bytes)
    \/ \E bytes \in Sizes : allocate_aligned(bytes)

SpecArena == Init /\ [][NextArena]_vars

\* -------------------------------------- alloc, one atomic access a step
\* a usize: a number below zero stands for the value that wrapped around
\* zero, 2^64 + n
wrapped(n) == n < 0

\* bytes <= remaining on usize values
usize_le(bytes, remaining) == wrapped(remaining) \/ bytes <= remaining

\* request sizes: a small one, one that gets a block of its own, and one
\* that fits the rest of a block only once
ThreadSizes == {3, K_BLOCK_SIZE \div 4 + 1, K_BLOCK_SIZE - 6}

\* the threads that are inside alloc
Allocating == {t \in Threads : threads[t].pc # "idle"}

\* thread t after one statement of its alloc
Stepped(t, pc, result, p) ==
    threads' = [threads EXCEPT ![t].pc = pc, ![t].result = result, ![t].p = p]

\* thread t returns from alloc with the region at result
Returns(t, result, path, blocks) ==
    /\ regions' = Append(regions,
                         [op |-> "allocate", bytes |-> threads[t].bytes,
                          addr |-> result, path |-> path,
                          before |-> arena.alloc_ptr, blocks |-> blocks,
                          overlapped |-> threads[t].overlaps])
    /\ threads' = [threads EXCEPT ![t] = [pc |-> "idle"]]

\* alloc is called: assert!(bytes > 0) and the load of remaining_bytes that
\* chooses the path; overlaps records on both sides that two calls are
\* under way together
a_call(t, bytes) ==
    /\ threads[t].pc = "idle"
    /\ Len(regions) + Cardinality(Allocating) < MaxAllocs
    /\ bytes > 0
    /\ threads' = [u \in Threads |->
          IF u = t
          THEN [pc |-> IF usize_le(bytes, arena.remaining_bytes)
                       THEN "read" ELSE "fallback",
                bytes |-> bytes, result |-> null_ptr, p |-> null_ptr,
                overlaps |-> Allocating # {}]
          ELSE IF u \in Allocating
          THEN [threads[u] EXCEPT !.overlaps = TRUE]
          ELSE threads[u]]
    /\ UNCHANGED <<arenaVars, listVars, iterVars, last, ghostVars,
                   writerVars, readerVars>>

\* alloc: assert!(!alloc_ptr.is_null()); let result = self.inner.alloc_ptr()
a_read(t) ==
    /\ threads[t].pc = "read"
    /\ IF arena.alloc_ptr = null_ptr
       THEN Returns(t, null_ptr, "panic", Len(arena.blocks))
       ELSE /\ Stepped(t, "add_load", arena.alloc_ptr, null_ptr)
            /\ UNCHANGED regions
    /\ UNCHANGED <<arena, listVars, iterVars, last, ghostVars, writerVars,
                   readerVars>>

\* add_alloc_ptr: let p = self.alloc_ptr()
a_add_load(t) ==
    /\ threads[t].pc = "add_load"
    /\ Stepped(t, "add_store", threads[t].result, arena.alloc_ptr)
    /\ UNCHANGED <<arenaVars, listVars, iterVars, last, ghostVars,
                   writerVars, readerVars>>

\* add_alloc_ptr: self.alloc_ptr.store(p.add(bytes))
a_add_store(t) ==
    /\ threads[t].pc = "add_store"
    /\ arena' = [arena EXCEPT !.alloc_ptr = threads[t].p + threads[t].bytes]
    /\ Stepped(t, "sub", threads[t].result, threads[t].p)
    /\ UNCHANGED <<regions, listVars, iterVars, last, ghostVars, writerVars,
                   readerVars>>

\* sub_remaining_bytes(bytes), and alloc returns result
a_sub(t) ==
    /\ threads[t].pc = "sub"
    /\ arena' = sub_remaining_bytes(arena, threads[t].bytes)
    /\ Returns(t, threads[t].result, "fast", Len(arena.blocks))
    /\ UNCHANGED <<listVars, iterVars, last, ghostVars, writerVars,
                   readerVars>>

\* self.inner.alloc_fallback(bytes), taken in one step
a_fallback(t) ==
    /\ threads[t].pc = "fallback"
    /\ \E base \in Bases(arena) :
          LET r == alloc_fallback(arena, threads[t].bytes, base)
          IN /\ arena' = r.a
             /\ Returns(t, r.result, r.path, Len(r.a.blocks))
    /\ UNCHANGED <<listVars, iterVars, last, ghostVars, writerVars,
                   readerVars>>

\* the threads call alloc on one arena without any lock around the calls
NextAllocs ==
    \/ \E t \in Threads, bytes \in ThreadSizes : a_call(t, bytes)
    \/ \E t \in Threads : a_read(t)
    \/ \E t \in Threads : a_add_load(t)
    \/ \E t \in Threads : a_add_store(t)
    \/ \E t \in Threads : a_sub(t)
    \/ \E t \in Threads : a_fallback(t)

SpecAllocs == Init /\ [][NextAllocs]_vars

\* ------------------------------------------- insert, one atomic access a step
\* the loop body with its two statements swapped
loop_order_swapped == <<"link_pred", "link_own">>

\* the two statements of the body of insert's loop, in program order
loop_order == <<"link_own", "link_pred">>

\* where the writer stands after running statement pc of the loop at level i
after_stmt(pc, i, height) ==
    IF pc = loop_order[1] THEN [pc |-> loop_order[2], i |-> i]
    ELSE IF i + 1 < height THEN [pc |-> loop_order[1], i |-> i + 1]
    ELSE [pc |-> "len", i |-> i + 1]

\* insert up to its first store: find, random_height, the prev fix-up
w_begin(key, draws) ==
    LET f == find(nodes, max_height, key, null_prev)
        height == random_height(draws)
    IN /\ wpc = "idle"
       /\ NumNodes < MaxConcNodes
       /\ wkey' = key
       /\ wheight' = height
       /\ wprev' = fill_prev(f.prev, height, max_height)
       /\ wpc' = IF height > max_height THEN "set_max_height" ELSE "new"
       /\ started' = started \cup {key}
       /\ UNCHANGED <<arenaVars, threads,
                      listVars, iterVars, last, ghostVars, wn, wi,
                      wown, readerVars>>

\* insert: self.set_max_height(height)
w_set_max_height ==
    /\ wpc = "set_max_height"
    /\ max_height' = wheight
    /\ wpc' = "new"
    /\ UNCHANGED <<arenaVars, threads,
                   nodes, len, iterVars, last, ghostVars, wkey,
                   wheight, wprev, wn, wi, wown, started, readerVars>>

\* insert: Node::new(key, height, ..)
w_new ==
    /\ wpc = "new"
    /\ nodes' = alloc(nodes, Node_new(wkey, wheight))
    /\ wn' = NumNodes + 1
    /\ wi' = 0
    /\ wown' = {}
    /\ wpc' = loop_order[1]
    /\ UNCHANGED <<arenaVars, threads,
                   max_height, len, iterVars, last, ghostVars,
                   wkey, wheight, wprev, started, readerVars>>

\* insert: n.set_next(i, (*node).get_next(i))
w_link_own ==
    /\ wpc = "link_own"
    /\ nodes' = link_own(nodes, wprev, wn, wi)
    /\ wown' = wown \cup {wi}
    /\ wpc' = after_stmt(wpc, wi, wheight).pc
    /\ wi' = after_stmt(wpc, wi, wheight).i
    /\ UNCHANGED <<arenaVars, threads,
                   max_height, len, iterVars, last, ghostVars,
                   wkey, wheight, wprev, wn, started, readerVars>>

\* insert: (*node).set_next(i, n)
w_link_pred ==
    /\ wpc = "link_pred"
    /\ nodes' = link_pred(nodes, wprev, wn, wi)
    /\ wpc' = after_stmt(wpc, wi, wheight).pc
    /\ wi' = after_stmt(wpc, wi, wheight).i
    /\ UNCHANGED <<arenaVars, threads,
                   max_height, len, iterVars, last, ghostVars,
                   wkey, wheight, wprev, wn, wown, started, readerVars>>

\* insert: self.inner.len.fetch_add(1, ..), and the call returns
w_len ==
    /\ wpc = "len"
    /\ len' = len_after_insert(len)
    /\ inserted' = inserted \cup {wkey}
    /\ calls' = calls + 1
    /\ since_clear' = since_clear + 1
    /\ wpc' = "idle"
    /\ wn' = NULL
    /\ wi' = 0
    /\ wown' = {}
    /\ wprev' = null_prev
    /\ wheight' = 0
    /\ wkey' = <<>>
    /\ UNCHANGED <<arenaVars, threads,
                   nodes, max_height, iterVars, last, started,
                   readerVars>>

\* --------------------------------------- contains, one atomic access a step
\* contains is called; find loads the max height
r_begin(r, key) ==
    /\ rpc[r] = "idle"
    /\ rpc' = [rpc EXCEPT ![r] = "find"]
    /\ rkey' = [rkey EXCEPT ![r] = key]
    /\ rcur' = [rcur EXCEPT ![r] = HEAD]
    /\ rlevel' = [rlevel EXCEPT ![r] = max_height - 1]
    /\ rsnap' = [rsnap EXCEPT ![r] = inserted]
    /\ UNCHANGED <<arenaVars, threads,
                   listVars, iterVars, last, ghostVars, writerVars,
                   rfound, rret>>

\* one iteration of find's loop: one load of a forward pointer
r_step(r) ==
    LET s == find_step(nodes, rkey[r], rcur[r], rlevel[r], null_prev) IN
    /\ rpc[r] = "find"
    /\ rcur' = [rcur EXCEPT ![r] = s.ptr]
    /\ rlevel' = [rlevel EXCEPT ![r] = s.height]
    /\ IF s.done
       THEN /\ rpc' = [rpc EXCEPT ![r] = "done"]
            /\ rfound' = [rfound EXCEPT ![r] = s.ret]
            /\ rret' = [rret EXCEPT ![r] =
                          s.ret # NULL /\ eq(rkey[r], nodes[s.ret].data)]
       ELSE UNCHANGED <<rpc, rfound, rret>>
    /\ UNCHANGED <<arenaVars, threads,
                   listVars, iterVars, last, ghostVars, writerVars,
                   rkey, rsnap>>

\* the caller takes the result
r_return(r) ==
    /\ rpc[r] = "done"
    /\ rpc' = [rpc EXCEPT ![r] = "idle"]
    /\ rkey' = [rkey EXCEPT ![r] = <<>>]
    /\ rcur' = [rcur EXCEPT ![r] = HEAD]
    /\ rlevel' = [rlevel EXCEPT ![r] = 0]
    /\ rfound' = [rfound EXCEPT ![r] = NULL]
    /\ rret' = [rret EXCEPT ![r] = FALSE]
    /\ rsnap' = [rsnap EXCEPT ![r] = {}]
    /\ UNCHANGED <<arenaVars, threads, listVars, iterVars, last, ghostVars,
                   writerVars>>

\* one writer inside insert and the readers inside contains, interleaved
NextConc ==
    \/ \E key \in Keys, draws \in Draws : w_begin(key, draws)
    \/ w_set_max_height
    \/ w_new
    \/ w_link_own
    \/ w_link_pred
    \/ w_len
    \/ \E r \in Readers, key \in Keys : r_begin(r, key)
    \/ \E r \in Readers : r_step(r)
    \/ \E r \in Readers : r_return(r)

SpecConc == Init /\ [][NextConc]_vars

\* the writer alone, one store a step
NextInsert ==
    \/ \E key \in Keys, draws \in Draws : w_begin(key, draws)
    \/ w_set_max_height
    \/ w_new
    \/ w_link_own
    \/ w_link_pred
    \/ w_len

SpecInsert == Init /\ [][NextInsert]_vars

\* ------------------------------ insert from several clones of the same list
\* the draws given to the inserts of the threads: heights 1, 2 and 3
ThreadDraws == {Run(z) : z \in {0, 1, 2}}

\* the threads that are inside insert
Inserting == {t \in Threads : threads[t].pc \notin {"idle", "done"}}

\* thread t after one statement of its insert
Moved(t, pc, i, n) ==
    threads' = [threads EXCEPT ![t].pc = pc, ![t].i = i, ![t].n = n]

\* csl.insert(key) on thread t, up to its first store: find, random_height,
\* the prev fix-up; overlaps records whether another insert was under way
t_begin(t, key, draws) ==
    LET f == find(nodes, max_height, key, null_prev)
        height == random_height(draws)
    IN /\ threads[t].pc = "idle"
       /\ \A u \in Threads : threads[u].pc # "idle" => threads[u].key # key
       /\ threads' = [threads EXCEPT ![t] =
             [pc |-> IF height > max_height THEN "set_max_height" ELSE "new",
              key |-> key, height |-> height,
              prev |-> fill_prev(f.prev, height, max_height),
              n |-> NULL, i |-> 0, overlaps |-> Inserting # {}]]
       /\ UNCHANGED <<arenaVars, listVars, iterVars, last, ghostVars,
                      writerVars, readerVars>>

\* insert: self.set_max_height(height)
t_set_max_height(t) ==
    /\ threads[t].pc = "set_max_height"
    /\ max_height' = threads[t].height
    /\ Moved(t, "new", 0, NULL)
    /\ UNCHANGED <<arenaVars, nodes, len, iterVars, last, ghostVars,
                   writerVars, readerVars>>

\* insert: Node::new(key, height, ..)
t_new(t) ==
    /\ threads[t].pc = "new"
    /\ nodes' = alloc(nodes, Node_new(threads[t].key, threads[t].height))
    /\ Moved(t, loop_order[1], 0, NumNodes + 1)
    /\ UNCHANGED <<arenaVars, max_height, len, iterVars, last, ghostVars,
                   writerVars, readerVars>>

\* insert: n.set_next(i, (*node).get_next(i))
t_link_own(t) ==
    LET w == threads[t]
        to == after_stmt(w.pc, w.i, w.height)
    IN /\ w.pc = "link_own"
       /\ nodes' = link_own(nodes, w.prev, w.n, w.i)
       /\ Moved(t, to.pc, to.i, w.n)
       /\ UNCHANGED <<arenaVars, max_height, len, iterVars, last, ghostVars,
                      writerVars, readerVars>>

\* insert: (*node).set_next(i, n)
t_link_pred(t) ==
    LET w == threads[t]
        to == after_stmt(w.pc, w.i, w.height)
    IN /\ w.pc = "link_pred"
       /\ nodes' = link_pred(nodes, w.prev, w.n, w.i)
       /\ Moved(t, to.pc, to.i, w.n)
       /\ UNCHANGED <<arenaVars, max_height, len, iterVars, last, ghostVars,
                      writerVars, readerVars>>

\* insert: self.inner.len.fetch_add(1, ..), and the call returns
t_len(t) ==
    /\ threads[t].pc = "len"
    /\ len' = len_after_insert(len)
    /\ Moved(t, "done", threads[t].i, threads[t].n)
    /\ UNCHANGED <<arenaVars, nodes, max_height, iterVars, last, ghostVars,
                   writerVars, readerVars>>

\* tests::test_concurrency: every thread inserts one key of its own
NextWriters ==
    \/ \E t \in Threads, key \in Keys, draws \in ThreadDraws :
          t_begin(t, key, draws)
    \/ \E t \in Threads : t_set_max_height(t)
    \/ \E t \in Threads : t_new(t)
    \/ \E t \in Threads : t_link_own(t)
    \/ \E t \in Threads : t_link_pred(t)
    \/ \E t \in Threads : t_len(t)

SpecWriters == Init /\ [][NextWriters]_vars

\* ------------------------------------------------------ reading the structure
\* the nodes after x on the level-l chain, in order (at most fuel of them)
RECURSIVE chain_from(_, _, _, _)
chain_from(ns, x, l, fuel) ==
    LET next == ns[x].forward[l] IN
    IF next = NULL \/ fuel = 0 THEN <<>>
    ELSE <<next>> \o chain_from(ns, next, l, fuel - 1)

\* the level-l chain from the head
Chain(l) == chain_from(nodes, HEAD, l, NumNodes + 1)

Range(f) == {f[i] : i \in DOMAIN f}

RealNodes == 1..NumNodes

\* the keys along a chain are in non-decreasing comparator order
Sorted(c) ==
    \A i \in 1..(Len(c) - 1) :
        compare(nodes[c[i]].data, nodes[c[i + 1]].data) # "Greater"

\* the first node of the level-0 chain whose key is >= k, or NULL
FirstGE(k) ==
    LET c == Chain(0)
        hits == {i \in 1..Len(c) : compare(nodes[c[i]].data, k) # "Less"}
    IN IF hits = {} THEN NULL
       ELSE c[CHOOSE i \in hits : \A j \in hits : i <= j]

\* the last node of the level-0 chain whose key is < k, or HEAD
LastLT(k) ==
    LET c == Chain(0)
        hits == {i \in 1..Len(c) : compare(nodes[c[i]].data, k) = "Less"}
    IN IF hits = {} THEN HEAD
       ELSE c[CHOOSE i \in hits : \A j \in hits : i >= j]

\* the region r lies inside the block b
InBlock(r, b) == b.base <= r.addr /\ r.addr + r.bytes <= b.base + b.size

\* the regions r and q share no byte
Disjoint(r, q) == r.addr + r.bytes <= q.addr \/ q.addr + q.bytes <= r.addr

\* the requests that returned a region of at least one byte
Given == {i \in 1..Len(regions) :
             regions[i].bytes > 0 /\ regions[i].path # "panic"}

\* the sum of a sequence of numbers
RECURSIVE Sum(_)
Sum(s) == IF s = <<>> THEN 0 ELSE Head(s) + Sum(Tail(s))

\* block size + 8 of every block obtained so far
BlockCosts == [k \in 1..Len(arena.blocks) |-> arena.blocks[k].size + 8]

\* the byte count of every request made so far
Requested == [i \in 1..Len(regions) |-> regions[i].bytes]

\* the positions of the sequence c of nodes of ns that hold the key k
EqualAt(ns, c, k) == {i \in 1..Len(c) : eq(ns[c[i]].data, k)}

\* the positions in P follow one another without a gap
Adjacent(P) == \A i \in P : \A j \in P : \A h \in i..j : h \in P

\* the last node of the level-l chain whose key is < k, or HEAD
LastLTOn(l, k) ==
    LET c == Chain(l)
        hits == {i \in 1..Len(c) : compare(nodes[c[i]].data, k) = "Less"}
    IN IF hits = {} THEN HEAD
       ELSE c[CHOOSE i \in hits : \A j \in hits : i >= j]

\* ---------------------------------------------------------------- claims

\* C1: after any sequence of insert calls, the walk along the level-0
\* forward pointers from the head yields the keys in non-decreasing order.
C1_LevelZeroSorted == Sorted(Chain(0))

\* three keys inserted in descending order, the chain in ascending order
C1_Witness ==
    /\ NumNodes = 3
    /\ compare(nodes[1].data, nodes[2].data) = "Greater"
    /\ compare(nodes[2].data, nodes[3].data) = "Greater"
    /\ Chain(0) = <<3, 2, 1>>

\* C2: contains(k) is true exactly for the keys k that insert was called
\* with, for every key of the universe and in the result of every call.
C2_ContainsIffInserted ==
    /\ \A k \in Keys : contains(nodes, max_height, k) <=> (k \in inserted)
    /\ last.op = "contains" => (last.ret <=> (last.key \in inserted))

\* a contains call that returned false while two other keys are present
C2_Witness ==
    /\ last.op = "contains"
    /\ ~last.ret
    /\ Cardinality(inserted) = 2
    /\ \A k \in inserted : contains(nodes, max_height, k)

\* C3 as stated: len() is the number of insert calls made so far, and
\* is_empty() holds exactly when that number is 0.
C3_Original ==
    /\ len = calls
    /\ is_empty(len) <=> (calls = 0)

\* C3 amended: len() is the number of insert calls made since the last
\* clear() (since construction when there was none), and is_empty() holds
\* exactly when that number is 0.
C3_LenCountsInsertsSinceClear ==
    /\ len = since_clear
    /\ is_empty(len) <=> (since_clear = 0)

\* a duplicate key counted twice, after a clear() that followed an insert
C3_Witness ==
    /\ calls = 3
    /\ len = 2
    /\ Cardinality(inserted) = 1
    /\ last.op = "insert"

\* C4: the max height stays within 1..K_MAX_HEIGHT and no step lowers it.
C4_MaxHeightBoundedMonotone ==
    /\ [](max_height \in 1..K_MAX_HEIGHT)
    /\ [][max_height' >= max_height]_vars

\* the ceiling reached through a run of draws longer than the ceiling, and
\* kept by a later insert of a shorter node
C4_Witness ==
    /\ NumNodes >= 2
    /\ nodes[1].height = K_MAX_HEIGHT
    /\ nodes[2].height = 1
    /\ max_height = K_MAX_HEIGHT
    /\ random_height(Run(K_MAX_HEIGHT + 1)) = K_MAX_HEIGHT

\* C7: on a list built by n inserts, seek_to_first() and then c calls of
\* next() leave the iterator on the (c+1)-th node of the level-0 chain,
\* which holds all n nodes once each in non-decreasing key order; after the
\* n-th next(), and after seek_to_first() on the empty list, it is invalid.
C7_ForwardScan ==
    scan >= 0 =>
        LET c == Chain(0) IN
        /\ Len(c) = calls
        /\ Range(c) = RealNodes
        /\ Sorted(c)
        /\ scan <= calls
        /\ scan < calls => iter_node = c[scan + 1]
        /\ scan = calls => iter_node = NULL

\* the third next() on a list of three nodes has left the iterator invalid
C7_Witness ==
    /\ scan = 3
    /\ calls = 3
    /\ last.op = "next"
    /\ iter_node = NULL

\* C8: find(k) returns the first node in level-0 order whose key is >= k, or
\* null when there is none, never the head; seek(k) leaves the iterator there.
\* find is compared on each list as its last insert left it.
C8_FindFirstGE ==
    /\ building =>
          \A k \in Keys :
              LET x == find(nodes, max_height, k, null_prev).node IN
              x = FirstGE(k) /\ x # HEAD
    /\ last.op = "seek" => iter_node = FirstGE(last.key)

\* a seek for an absent key that landed on a larger key, smaller keys before
C8_Witness ==
    /\ last.op = "seek"
    /\ iter_node # NULL
    /\ compare(nodes[iter_node].data, last.key) = "Greater"
    /\ Chain(0)[1] # iter_node
    /\ NumNodes = 3

\* C9: find_last() returns the last node of the level-0 chain, which holds
\* a maximum key, or the head when the list holds no node; seek_to_last()
\* leaves the iterator on that node, and invalid when there is none.
C9_FindLast ==
    LET c == Chain(0)
        x == find_last(nodes, max_height)
    IN /\ x = IF c = <<>> THEN HEAD ELSE c[Len(c)]
       /\ x # HEAD =>
            \A y \in RealNodes : compare(nodes[y].data, nodes[x].data) # "Greater"
       /\ last.op = "seek_to_last" =>
            iter_node = IF c = <<>> THEN NULL ELSE c[Len(c)]

\* seek_to_last() landed on a node of height 1 behind a node of full height
C9_Witness ==
    /\ last.op = "seek_to_last"
    /\ iter_node # NULL
    /\ nodes[iter_node].height = 1
    /\ max_height = K_MAX_HEIGHT
    /\ NumNodes = 3

\* C10: find_less_than(k) returns the last node in level-0 order whose key
\* is < k, or the head when there is none; prev() from a node with key c
\* leaves the iterator on the last node with key < c, invalid when there is
\* none, and the iterator never stands on the head.  find_less_than is
\* compared on each list as its last insert left it.
C10_PrevLastLess ==
    /\ building =>
          \A k \in Keys : find_less_than(nodes, max_height, k) = LastLT(k)
    /\ last.op = "prev" =>
          iter_node = IF LastLT(last.key) = HEAD THEN NULL
                      ELSE LastLT(last.key)
    /\ iter_node # HEAD

\* prev() from one of two nodes with the same key landed on a smaller key
C10_Witness ==
    /\ last.op = "prev"
    /\ iter_node # NULL
    /\ Cardinality({y \in RealNodes : nodes[y].data = last.key}) = 2
    /\ compare(nodes[iter_node].data, last.key) = "Less"

\* the node being inserted is stored in some node's level-l forward slot
Published(l) ==
    wn # NULL /\ \E x \in DOMAIN nodes : nodes[x].forward[l] = wn

\* C5: with the writer inside insert, a contains(k) that has returned gave
\* true when an insert(k) had completed before the call began and false when
\* no insert(k) was ever begun, and its find(k) returned null or a real node
\* whose key is >= k.
C5_ReadersSeeCompletedInserts ==
    \A r \in Readers :
        rpc[r] = "done" =>
            /\ rkey[r] \in rsnap[r] => rret[r]
            /\ rkey[r] \notin started => ~rret[r]
            /\ \/ rfound[r] = NULL
               \/ /\ rfound[r] \in RealNodes
                  /\ gte(nodes[rfound[r]].data, rkey[r])

\* contains found a key inserted before the call, while the writer stands
\* between two levels of the tower of a smaller key
C5_Witness ==
    /\ rpc[1] = "done"
    /\ rret[1]
    /\ rkey[1] \in rsnap[1]
    /\ wpc = "link_pred"
    /\ wi >= 1
    /\ compare(wkey, rkey[1]) = "Less"

\* C6 as stated: the new node's forward pointers at all of its levels are
\* written before the node is stored into any predecessor's slot.
C6_Original ==
    \A l \in Levels : Published(l) => wown = 0..(wheight - 1)

\* C6 amended: when the new node is stored into a predecessor's level-l
\* slot, it is stored at every level below l too, its own pointers at the
\* levels 0..l are written and the level-l chain holds every node of that
\* height; and a reader standing on the new node reads a level whose
\* pointer is written.
C6_PublishedLevelsWritten ==
    /\ \A l \in 0..(wheight - 1) :
          Published(l) =>
              /\ 0..l \subseteq wown
              /\ \A j \in 0..l : Published(j)
              /\ Range(Chain(l)) = {x \in RealNodes : nodes[x].height > l}
    /\ \A r \in Readers :
          (rpc[r] = "find" /\ wn # NULL /\ rcur[r] = wn) => rlevel[r] \in wown

\* a reader stands on the new node, reached through level 0, while the
\* node's level-1 pointer is not yet written
C6_Witness ==
    /\ wpc = "link_own"
    /\ wi = 1
    /\ Published(0)
    /\ ~Published(1)
    /\ rpc[1] = "find"
    /\ rcur[1] = wn
    /\ nodes[wn].forward[0] # NULL
\* C11 as stated: for an inserted key k, seek(k) followed by prev() leaves
\* the iterator on a node with key <= k, and a following next() leaves it on
\* a node with key >= k.
C11_Original ==
    last.skey \in inserted =>
        /\ last.seq = "seek_prev" =>
              /\ valid
              /\ compare(nodes[iter_node].data, last.skey) # "Greater"
        /\ last.seq = "seek_prev_next" =>
              /\ valid
              /\ compare(nodes[iter_node].data, last.skey) # "Less"

\* C11 amended: for an inserted key k, when the list holds a key smaller
\* than k, seek(k) followed by prev() leaves the iterator on a node with key
\* <= k (a key < k) and a following next() leaves it on a node with key
\* >= k; when k is the smallest key, prev() leaves the iterator invalid and
\* a following next() fails its assertion.
C11_SeekPrevNext ==
    last.skey \in inserted =>
        /\ last.seq = "seek_prev" =>
              IF LastLT(last.skey) # HEAD
              THEN /\ valid
                   /\ compare(nodes[iter_node].data, last.skey) = "Less"
              ELSE ~valid
        /\ last.seq = "seek_prev_next" =>
              IF LastLT(last.skey) # HEAD
              THEN /\ valid
                   /\ last.op = "next"
                   /\ compare(nodes[iter_node].data, last.skey) # "Less"
              ELSE ~valid /\ last.op = "next_panic"

\* seek([1,2]), prev(), next() on a list holding the smaller key [1,1]:
\* the iterator is back on the node with key [1,2]
C11_Witness ==
    /\ last.seq = "seek_prev_next"
    /\ last.skey = <<1, 2>>
    /\ <<1, 1>> \in inserted
    /\ <<1, 2>> \in inserted
    /\ last.op = "next"
    /\ valid
    /\ nodes[iter_node].data = <<1, 2>>

\* C12: a newly created iterator is invalid; key(), next() and prev() called
\* on an invalid iterator fail the assertion, return nothing and leave the
\* cursor where it was, and called on a valid iterator they do not fail.
C12_InvalidIteratorPanics ==
    /\ [](last.op = "new" => ~valid)
    /\ [](last.op \in PanicOps => ~valid /\ last.key = <<>>)
    /\ [][last'.op \in {"key", "next", "prev"} \cup PanicOps =>
            IF valid THEN last'.op \notin PanicOps
            ELSE last'.op \in PanicOps /\ iter_node' = iter_node]_vars

\* prev() panicked on an iterator that a seek past the largest key of a
\* three-node list had left invalid
C12_Witness ==
    /\ last.op = "prev_panic"
    /\ last.seq = "seek_prev"
    /\ last.skey = <<1, 2>>
    /\ calls = 3
    /\ \A x \in RealNodes : compare(nodes[x].data, last.skey) = "Less"
    /\ ~valid
\* C13: every region returned by allocate(n) or allocate_aligned(n), n > 0,
\* lies entirely inside one block owned by the arena and shares no byte
\* with a region returned earlier.
C13_RegionsInOneBlockDisjoint ==
    \A i \in Given :
        /\ Cardinality({k \in 1..Len(arena.blocks) :
                            InBlock(regions[i], arena.blocks[k])}) = 1
        /\ \A j \in Given : j < i => Disjoint(regions[i], regions[j])

\* three regions in two blocks: the first opened a standard block, the
\* second was cut from it behind the first after skipped slop bytes, the
\* third has a block of its own
C13_Witness ==
    /\ Len(regions) = 3
    /\ Given = {1, 2, 3}
    /\ regions[1].path = "block"
    /\ regions[2].path = "fast"
    /\ regions[2].op = "allocate_aligned"
    /\ regions[2].addr > regions[1].addr + regions[1].bytes
    /\ regions[3].path = "dedicated"
    /\ Len(arena.blocks) = 2

\* C14: wherever the earlier requests left the bump pointer,
\* allocate_aligned(n) passes its alignment assertion and returns a multiple
\* of 8: on the fast path the first multiple of 8 at or after the bump
\* pointer, on the fallback path the start of a block obtained by this call.
C14_AlignedAddress ==
    \A i \in 1..Len(regions) :
        LET r == regions[i]
            had == IF i = 1 THEN 0 ELSE regions[i - 1].blocks
        IN r.op = "allocate_aligned" =>
              /\ r.path # "panic"
              /\ r.addr % 8 = 0
              /\ r.path = "fast" =>
                    /\ r.before <= r.addr
                    /\ r.addr - r.before < 8
                    /\ r.blocks = had
              /\ r.path # "fast" =>
                    /\ r.blocks = had + 1
                    /\ r.addr = arena.blocks[r.blocks].base

\* two aligned requests made with the bump pointer 3 past a multiple of 8:
\* one served on the fast path 5 bytes further on, one from a new block
C14_Witness ==
    /\ Len(regions) = 3
    /\ regions[1].bytes = 3
    /\ regions[2].op = "allocate_aligned"
    /\ regions[2].path = "fast"
    /\ regions[2].before % 8 = 3
    /\ regions[2].addr = regions[2].before + 5
    /\ regions[3].op = "allocate_aligned"
    /\ regions[3].path = "dedicated"
    /\ regions[3].before % 8 # 0

\* C15: memory_usage() is the sum over the blocks obtained so far of block
\* size + 8; it never decreases, a request served from the current block
\* leaves it unchanged, it is 4104 after a first allocation of 1 byte to a
\* quarter block, and it is at least the total of the byte counts requested.
C15_MemoryUsage ==
    /\ [](arena.memory_usage = Sum(BlockCosts))
    /\ [](arena.memory_usage >= Sum(Requested))
    /\ []((/\ Len(regions) = 1
           /\ regions[1].bytes \in 1..(K_BLOCK_SIZE \div 4))
              => arena.memory_usage = 4104)
    /\ [][arena.memory_usage' >= arena.memory_usage]_vars
    /\ [][(/\ Len(regions') = Len(regions) + 1
           /\ regions'[Len(regions')].path = "fast")
              => arena.memory_usage' = arena.memory_usage]_vars

\* a standard block, a request served from it, and a block of 1025 bytes
C15_Witness ==
    /\ Len(regions) = 3
    /\ regions[1].path = "block"
    /\ regions[2].path = "fast"
    /\ regions[3].path = "dedicated"
    /\ regions[3].bytes = 1025
    /\ arena.memory_usage = 4104 + 1033
\* C16: a contains(k) call leaves len(), the max height, every forward
\* pointer, the level-0 traversal and the memory accounting as they were.
C16_ContainsChangesNothing ==
    [][last'.op = "contains" =>
          /\ len' = len
          /\ max_height' = max_height
          /\ nodes' = nodes
          /\ Chain(0)' = Chain(0)
          /\ memory_size(len') = memory_size(len)
          /\ arena' = arena]_vars

\* contains found a key on a list of three nodes of which one is taller
\* than a single level
C16_Witness ==
    /\ last.op = "contains"
    /\ last.ret
    /\ len = 3
    /\ Len(Chain(0)) = 3
    /\ max_height > 1
    /\ memory_size(len) = 4 * 136
\* C17 as stated: after clear() the list is empty: is_empty() is true, len()
\* is 0, contains(k) is false for every key k and the forward traversal
\* from the head yields no key.
C17_ClearEmptiesList ==
    last.op = "clear" =>
        /\ is_empty(len)
        /\ len = 0
        /\ \A k \in Keys : ~contains(nodes, max_height, k)
        /\ Chain(0) = <<>>
\* C18: an insert of a key k held by m nodes adds one node with key k; the
\* level-0 chain then holds m+1 nodes with key k, next to one another, and
\* on every level below its height the new node is the first of the
\* nodes with key k, which follow it without a gap.
C18_DuplicateBeforeOlder ==
    [][calls' = calls + 1 =>
          LET n == NumNodes + 1
              ns == nodes'
              k == last'.key
              m == Cardinality({x \in RealNodes : eq(nodes[x].data, k)})
              c0 == chain_from(ns, HEAD, 0, n + 1)
          IN /\ last'.op = "insert"
             /\ DOMAIN ns = DOMAIN nodes \cup {n}
             /\ ns[n].data = k
             /\ Cardinality(EqualAt(ns, c0, k)) = m + 1
             /\ Adjacent(EqualAt(ns, c0, k))
             /\ \A l \in 0..(ns[n].height - 1) :
                   LET c == chain_from(ns, HEAD, l, n + 1)
                       P == EqualAt(ns, c, k)
                   IN /\ Adjacent(P)
                      /\ \E i \in P : c[i] = n /\ \A j \in P : i <= j]_vars

\* the same key inserted three times and no other: the level-0 chain
\* holds the three nodes newest first, and the newest stands before an
\* older one on level 1 as well
C18_Witness ==
    /\ calls = 3
    /\ Cardinality(inserted) = 1
    /\ Chain(0) = <<3, 2, 1>>
    /\ nodes[3].height >= 2
    /\ Len(Chain(1)) >= 2
    /\ Chain(1)[1] = 3
    /\ last.op = "insert"
\* C19: in every state, between the steps of an insert too, each level's
\* chain from the head ends at null without repeating a node, is
\* non-decreasing in key order and holds every node of the chain one level
\* up; while no insert is under way the level-L chain holds exactly the
\* nodes of height > L; and no store takes a node off a chain.
C19_ChainsWellFormed ==
    /\ [](\A L \in Levels :
            LET c == Chain(L) IN
            /\ Len(c) <= NumNodes
            /\ Cardinality(Range(c)) = Len(c)
            /\ Sorted(c)
            /\ L + 1 \in Levels => Range(Chain(L + 1)) \subseteq Range(c)
            /\ wpc = "idle" =>
                  Range(c) = {x \in RealNodes : nodes[x].height > L})
    /\ [][nodes' # nodes =>
            \A L \in Levels : Range(Chain(L)) \subseteq Range(Chain(L))']_vars

\* a node of height 2 is being put in front of an older node of height 2:
\* it is on the level-0 chain and not yet on the level-1 chain
C19_Witness ==
    /\ wpc = "link_pred"
    /\ wi = 1
    /\ wn = 2
    /\ wheight = 2
    /\ nodes[1].height = 2
    /\ Chain(0) = <<2, 1>>
    /\ Chain(1) = <<1>>

\* C20: throughout an insert with drawn height h the predecessor kept for
\* each level i < h is non-null and is the last node of the level-i chain
\* with key < the new key; for the levels from the old max height up to
\* h - 1 it is the head; and the insert leaves the max height at the larger
\* of the old max height and h.
C20_PredecessorsAndMaxHeight ==
    /\ [](wpc # "idle" =>
            /\ \A i \in 0..(wheight - 1) :
                  /\ wprev[i + 1] # NULL
                  /\ wprev[i + 1] = LastLTOn(i, wkey)
            /\ wpc = "set_max_height" => wheight > max_height
            /\ wpc # "set_max_height" => wheight <= max_height)
    /\ [][wpc = "idle" /\ wpc' # "idle" =>
            /\ \A i \in max_height..(wheight' - 1) : wprev'[i + 1] = HEAD
            /\ max_height' = max_height
            /\ wpc' = IF wheight' > max_height THEN "set_max_height"
                      ELSE "new"]_vars
    /\ [][wpc = "set_max_height" /\ wpc' # wpc =>
            max_height' = wheight /\ wpc' = "new"]_vars
    /\ [][wpc \notin {"idle", "set_max_height"} =>
            max_height' = max_height]_vars

\* a node of full height goes into a list of max height 2 behind a smaller
\* key: that node is the predecessor on levels 0 and 1, the head above
C20_Witness ==
    /\ wpc = "link_pred"
    /\ wi = 2
    /\ wheight = K_MAX_HEIGHT
    /\ max_height = K_MAX_HEIGHT
    /\ nodes[1].height = 2
    /\ wprev[1] = 1
    /\ wprev[2] = 1
    /\ \A i \in 2..(K_MAX_HEIGHT - 1) : wprev[i + 1] = HEAD
\* the request r, made in the current state, is served from the current
\* block
Fits(r) ==
    IF r.op = "allocate" THEN r.bytes <= arena.remaining_bytes
    ELSE r.bytes + slop(arena.alloc_ptr % 8, 8) <= arena.remaining_bytes

\* C21: a request of n bytes that does not fit in the current block gets,
\* if n > 1024, a new block of exactly n bytes whose start it returns, the
\* bump pointer and the remaining-byte count staying as they were; if
\* n <= 1024, a new block of 4096 bytes that becomes the current block, the
\* request being served from its start and 4096 - n bytes remaining.
C21_FallbackFrame ==
    [][Len(regions') = Len(regions) + 1 =>
          LET r == regions'[Len(regions')]
              b == arena'.blocks[Len(arena'.blocks)]
          IN (r.path # "panic" /\ ~Fits(r)) =>
                /\ Len(arena'.blocks) = Len(arena.blocks) + 1
                /\ r.addr = b.base
                /\ IF r.bytes > 1024
                   THEN /\ b.size = r.bytes
                        /\ arena'.alloc_ptr = arena.alloc_ptr
                        /\ arena'.remaining_bytes = arena.remaining_bytes
                   ELSE /\ b.size = 4096
                        /\ arena'.alloc_ptr = b.base + r.bytes
                        /\ arena'.remaining_bytes = 4096 - r.bytes]_vars

\* 3 bytes from a standard block, then 4095 bytes in a block of their own,
\* then 1 byte from the standard block right behind the first 3
C21_Witness ==
    /\ Len(regions) = 3
    /\ regions[1].bytes = 3
    /\ regions[1].path = "block"
    /\ regions[2].bytes = 4095
    /\ regions[2].path = "dedicated"
    /\ arena.blocks[2].size = 4095
    /\ regions[3].path = "fast"
    /\ regions[3].addr = regions[1].addr + 3
    /\ arena.remaining_bytes = 4096 - 4

\* C22: get_next(level) and set_next(level, node) on a node whose height is
\* at most level panic: such a call neither returns a pointer nor stores one.
C22_LevelAboveHeightPanics ==
    (last.op \in {"get_next", "set_next"}
        /\ last.level >= nodes[last.node].height) => last.panic

\* the levels below K_MAX_HEIGHT are loaded and stored whatever the height:
\* a panic happens exactly when the level is outside the array
C22_OnlyArrayBoundPanics ==
    last.op \in {"get_next", "set_next"} =>
        /\ last.panic <=> last.level >= K_MAX_HEIGHT
        /\ (last.op = "set_next" /\ ~last.panic) =>
              nodes[last.node].forward[last.level] = last.out

C22_Witness ==
    /\ last.op = "get_next"
    /\ nodes[last.node].height = 3
    /\ last.level = 3
    /\ ~last.panic
    /\ last.out = last.node

\* every thread's insert has returned
AllInserted == \A t \in Threads : threads[t].pc = "done"

\* the level-0 traversal holds the key of every thread once, in ascending
\* order
TraversalComplete ==
    LET c == Chain(0) IN
    /\ Len(c) = Cardinality(Threads)
    /\ \A t \in Threads : Cardinality(EqualAt(nodes, c, threads[t].key)) = 1
    /\ \A i \in 1..(Len(c) - 1) : lt(nodes[c[i]].data, nodes[c[i + 1]].data)

C23_LostInsert ==
    /\ AllInserted
    /\ NumNodes = 2
    /\ Len(Chain(0)) = 1

\* two regions handed out share a byte
Overlapping ==
    \E i \in Given : \E j \in Given : i < j /\ ~Disjoint(regions[i], regions[j])

\* C24: alloc is not one atomic step.  Regions that share a byte, or a
\* remaining-byte counter that went below zero and wrapped, come only from
\* calls of two threads that were under way together, and such an
\* interleaving exists (C24_Witness).
C24_RacesNeedOverlappingCalls ==
    (Overlapping \/ wrapped(arena.remaining_bytes)) =>
        \E i \in 1..Len(regions) : regions[i].overlapped

\* both threads were given the same address and the counter has wrapped
C24_Witness ==
    /\ Len(regions) = 3
    /\ regions[2].addr = regions[3].addr
    /\ regions[2].path = "fast" /\ regions[3].path = "fast"
    /\ regions[2].bytes = K_BLOCK_SIZE - 6
    /\ regions[3].bytes = K_BLOCK_SIZE - 6
    /\ Overlapping
    /\ arena.remaining_bytes = K_BLOCK_SIZE - 3 - 2 * (K_BLOCK_SIZE - 6)
    /\ wrapped(arena.remaining_bytes)

\* the access is to a node that exists, at a level below its height
Legal(ns, a) ==
    /\ a.node # NULL
    /\ a.node \in DOMAIN ns
    /\ a.level >= 0
    /\ a.level < ns[a.node].height

\* C25: with a single writer, every get_next or set_next that insert,
\* contains, find, find_less_than, find_last and the iterator perform is on
\* a node that is not null, at a level strictly below that node's height
\* (12 for the head).
C25_AccessesWithinHeight ==
    /\ valid => Legal(nodes, Access(iter_node, 0))
    /\ building =>
          \A key \in Keys :
             /\ \A a \in search_uses(nodes, max_height, key) : Legal(nodes, a)
             /\ \A draws \in Draws :
                   \A a \in insert_uses(nodes, max_height, key, draws) :
                      Legal(alloc(nodes, Node_new(key, random_height(draws))),
                            a)

\* a list with towers of heights 1 and 12: a search reads the head at level
\* 11 and a node of height 1 at level 0, and the iterator stands on a node
C25_Witness ==
    /\ valid
    /\ last.op = "prev"
    /\ max_height = K_MAX_HEIGHT
    /\ \E x \in RealNodes : \E y \in RealNodes :
          /\ nodes[x].height = 1
          /\ nodes[y].height = K_MAX_HEIGHT
          /\ Access(HEAD, K_MAX_HEIGHT - 1)
                \in search_uses(nodes, max_height, <<1, 2>>)
          /\ Access(y, K_MAX_HEIGHT - 1)
                \in search_uses(nodes, max_height, <<1, 2>>)
          /\ Access(x, 0) \in search_uses(nodes, max_height, <<1, 2>>)

\* the positions of the level-0 chain that end a run of equal keys
RunEnds ==
    LET c == Chain(0) IN
    {i \in 1..Len(c) : i = Len(c) \/ lt(nodes[c[i]].data, nodes[c[i + 1]].data)}

\* the position in P that has exactly k positions of P after it
FromEnd(P, k) == CHOOSE i \in P : Cardinality({j \in P : j > i}) = k

\* C26 as stated: seek_to_last() followed by prev() until the iterator is
\* invalid visits all n nodes, in the reverse of the order of
\* seek_to_first() and next(): after k calls of prev() the iterator is on
\* the node k places before the last, and is invalid only when k = n.
C26_Original ==
    back >= 0 =>
        LET c == Chain(0) IN
        IF back < Len(c) THEN valid /\ iter_node = c[Len(c) - back]
        ELSE ~valid

\* C26: seek_to_last() followed by prev() until the iterator is invalid
\* visits, in descending key order, one node for every distinct key, the one
\* that forward iteration visits last among the nodes with that key; it is
\* the reverse of the forward order exactly when all keys are distinct.
C26_BackwardVisitsRunEnds ==
    back >= 0 =>
        LET c == Chain(0) IN
        /\ IF back < Cardinality(RunEnds)
           THEN valid /\ iter_node = c[FromEnd(RunEnds, back)]
           ELSE ~valid /\ back = Cardinality(RunEnds)
        /\ Cardinality(RunEnds) = Len(c) =>
              IF back < Len(c) THEN valid /\ iter_node = c[Len(c) - back]
              ELSE ~valid

\* [1,1] inserted twice and [1,2] once: seek_to_last() and two calls of
\* prev() leave the iterator invalid after two of the three nodes
C26_Witness ==
    /\ back = 2
    /\ last.op = "prev"
    /\ ~valid
    /\ Len(Chain(0)) = 3
    /\ Cardinality(RunEnds) = 2
    /\ nodes[Chain(0)[1]].data = <<1, 1>>
    /\ nodes[Chain(0)[3]].data = <<1, 2>>
====
